---- MODULE Spec2Model ----
(***************************************************************************)
(* A model of slackdump's chunk Player (indexed replay of a recorded event *)
(* log), of the concurrent export pipeline exportV3 and of the output      *)
(* file system adapter fsadapter.Directory.                                *)
(*                                                                         *)
(* Three state machines live in this module.  PlayerSpec records events   *)
(* into a file, opens a Player over it and drives tryGetEvent / hasMore /  *)
(* Reset / Replay.  ExportSpec runs the three worker goroutines, the       *)
(* sentinel and the caller's receive loop of exportV3.  DirSpec runs two   *)
(* concurrent Create / WriteFile calls of fsadapter.Directory.             *)
(***************************************************************************)
EXTENDS Naturals, Sequences, FiniteSets, TLC

VARIABLES
    file,       \* the bytes of the event log, as written by the recorder; the
                \* Player's rs reads them
    log,        \* history: the events appended, in append order
    p,          \* the Player (rs: the stream position, pointer, idx), or NoPlayer
    returned,   \* history: per id, the events retrieved since the cursors were last cleared
    out         \* the observable outcome of the last Player operation

playerVars == <<file, log, p, returned, out>>

VARIABLES
    list,       \* the EntityList: Include (a sequence) and Exclude (a set)
    listing,    \* the channels the remote listing endpoint returns
    memberOnly, \* options.MemberOnly
    stubHangs,  \* the remote side never answers a call on its own
    cancelled,  \* ctx is done
    pc,         \* where each goroutine of exportV3 is
    next,       \* the feeder's position in list.Include or in the listing
    res,        \* the terminal result each worker has computed
    errC,       \* the buffer of the error channel
    errCClosed, \* close(errC) has run
    linksClosed,\* close(links) has run
    wg,         \* the WaitGroup counter
    ret,        \* what exportV3 returned
    arrived,    \* history: the values sent on errC, in order of arrival
    links,      \* the buffer of the entity-id queue
    sent,       \* history: the ids the feeder has sent on links
    received,   \* the ids the conversation worker has received from links
    proc        \* the event-log processor of each worker

exportVars ==
    <<list, listing, memberOnly, stubHangs, cancelled, pc, next, res, errC,
      errCClosed, linksClosed, wg, ret, arrived, links, sent, received, proc>>

VARIABLES
    dir,        \* Directory.dir: the root of the adapter
    dirs,       \* the file system: the directories that exist
    files,      \* the file system: the content of every file that exists
    client      \* the Create / WriteFile call each client of the Directory runs

dirVars == <<dir, dirs, files, client>>

vars == <<playerVars, exportVars, dirVars>>

-----------------------------------------------------------------------------
(* Bounds *)

MaxLog == 2         \* records appended to one log
MaxList == 2        \* channels in list.Include, and channels listed by the API

(* Small value sets the inputs are drawn from *)
Channels == {"C1", "C2"}
ThreadChannels == {"C1"}        \* the channels that have threads
Parents  == {"T1"}
NoParent == "nil"               \* evt.Parent == nil
UnknownChannel == "CX"          \* a channel no recorder ever writes

-----------------------------------------------------------------------------
(* Events and their identity *)

EventMessages       == "EventMessages"
EventThreadMessages == "EventThreadMessages"
EventFiles          == "EventFiles"
EventChannels       == "ChannelListing"
EventUsers          == "UserListing"

EventTypes ==
    {EventMessages, EventThreadMessages, EventFiles, EventChannels, EventUsers}

\* threadID composes the channel identifier and the parent timestamp.
threadID(channelID, threadTS) == channelID \o ":" \o threadTS

\* The events a recorder can write as its n-th record: the payload of the n-th
\* record is n (every recorded chunk carries different content).
EventsAt(n) ==
    {[Type |-> EventMessages, ChannelID |-> c, Parent |-> NoParent, Payload |-> n] :
        c \in Channels}
    \cup {[Type |-> t, ChannelID |-> c, Parent |-> ts, Payload |-> n] :
            t \in {EventThreadMessages, EventFiles}, c \in ThreadChannels, ts \in Parents}
    \cup {[Type |-> t, ChannelID |-> "", Parent |-> NoParent, Payload |-> n] :
            t \in {EventChannels, EventUsers}}

\* What the log's history holds for the n-th record when the bytes written
\* for it are no JSON value of an event.
Damaged(n) == [Type |-> "damaged", ChannelID |-> "", Parent |-> NoParent, Payload |-> n]

\* Event.ID: the channel identifier for a main-channel event, the composition of
\* channel identifier and parent timestamp for a thread-scoped one.
ID(evt) ==
    IF evt.Parent = NoParent THEN evt.ChannelID
    ELSE threadID(evt.ChannelID, evt.Parent)

\* The ids a client can ask a Player for (Messages / Thread arguments).
RequestIDs ==
    Channels \cup {UnknownChannel}
    \cup {threadID(c, ts) : c \in ThreadChannels, ts \in Parents}

-----------------------------------------------------------------------------
(* The record stream: encoding and decoding *)

NL == "\n"

\* The encoded size of an event's JSON value, in cells; an event with a parent
\* is longer than one without.
Size(evt) == IF evt.Parent = NoParent THEN 1 ELSE 2

\* Recorder: one JSON value per event followed by a newline.  Cell k of the
\* value of evt is <<evt, k>>.
Encode(evt) == [k \in 1..Size(evt) |-> <<evt, k>>] \o <<NL>>

ErrNone      == "nil"
ErrNotFound  == "not found"
ErrExhausted == "exhausted"
EOF          == "EOF"
ErrSeek      == "seek failed"
ErrRead      == "read failed"
ErrSyntax    == "invalid character"
ErrConsumer  == "consumer failed"

NoEvent == [Type |-> "none", ChannelID |-> "", Parent |-> NoParent, Payload |-> 0]

RECURSIVE SkipSpace(_, _)
\* json.Decoder skips white space before a value; off is a 0-based offset.
SkipSpace(data, off) ==
    IF off < Len(data) /\ data[off + 1] = NL THEN SkipSpace(data, off + 1) ELSE off

\* json.Decoder.Decode of one value starting at offset off: the value and the
\* offset of its end (dec.InputOffset afterwards), io.EOF at the end of the
\* data, a syntax error if off is not the start of a value.
Decode(data, off) ==
    LET s == SkipSpace(data, off) IN
    IF s >= Len(data) THEN [err |-> EOF, event |-> NoEvent, end |-> s]
    ELSE
    LET evt == data[s + 1][1]
        whole == /\ s + Size(evt) <= Len(data)
                 /\ \A k \in 1..Size(evt) :
                       IF s + k <= Len(data) THEN data[s + k] = <<evt, k>> ELSE FALSE
    IN IF whole THEN [err |-> ErrNone, event |-> evt, end |-> s + Size(evt)]
       ELSE [err |-> ErrSyntax, event |-> NoEvent, end |-> s]

-----------------------------------------------------------------------------
(* Player *)

NoPlayer == [open |-> FALSE]
EmptyMap == [x \in {} |-> 0]

RECURSIVE indexFromLenient(_, _, _)
\* Mutant of indexFrom: a record that does not decode ends the scan like the
\* end of the stream does.
indexFromLenient(data, off, idx) ==
    LET d == Decode(data, off) IN
    IF d.err # ErrNone THEN [err |-> ErrNone, idx |-> idx]
    ELSE LET id == ID(d.event)
             old == IF id \in DOMAIN idx THEN idx[id] ELSE <<>>
         IN indexFromLenient(data, d.end, (id :> Append(old, off)) @@ idx)

RECURSIVE indexFrom(_, _, _)
\* The loop of indexRecords from decoder offset off with the index built so far.
indexFrom(data, off, idx) ==
    LET d == Decode(data, off) IN
    IF d.err = EOF THEN [err |-> ErrNone, idx |-> idx]
    ELSE IF d.err # ErrNone THEN [err |-> d.err, idx |-> EmptyMap]
    ELSE LET id == ID(d.event)
             old == IF id \in DOMAIN idx THEN idx[id] ELSE <<>>
         IN indexFrom(data, d.end, (id :> Append(old, off)) @@ idx)

\* indexRecords(rs): the index and the error.  rs is the position of the stream
\* over the log file; fault "seek" is a failure of the final
\* rs.Seek(0, io.SeekStart), fault "read" a read failure while decoding.
indexRecords(rs, fault) ==
    IF fault = "read" THEN [err |-> ErrRead, idx |-> EmptyMap, rs |-> rs]
    ELSE LET r == indexFrom(file, rs, EmptyMap) IN
         IF r.err # ErrNone
         THEN [err |-> r.err, idx |-> EmptyMap, rs |-> Len(file)]
         ELSE IF fault = "seek"
         THEN [err |-> ErrSeek, idx |-> EmptyMap, rs |-> Len(file)]
         ELSE [err |-> ErrNone, idx |-> r.idx, rs |-> 0]

\* NewPlayer(rs): a Player with the index and an empty pointer map, or the error.
NewPlayer(rs, fault) ==
    LET r == indexRecords(rs, fault) IN
    IF r.err # ErrNone THEN [err |-> r.err, p |-> NoPlayer]
    ELSE [err |-> ErrNone,
          p |-> [open |-> TRUE, rs |-> r.rs, idx |-> r.idx, pointer |-> EmptyMap]]

\* The value the exhausted branch of tryGetEvent returns.
exhaustedResult == EOF

\* Mutant of advance: the cursor is not increased.
advanceNot(pointer, id) == pointer

\* The pointer map after tryGetEvent's successful decode.
advance(pointer, id) == [pointer EXCEPT ![id] = @ + 1]

\* Mutant of tryGetEvent: the cursor is increased before the record is read.
tryGetEventAdvancesFirst(pl, id, fault) ==
    IF id \notin DOMAIN pl.idx
    THEN [p |-> pl, err |-> ErrNotFound, event |-> NoEvent]
    ELSE
    LET offsets == pl.idx[id]
        ok  == id \in DOMAIN pl.pointer
        ptr == IF ok THEN pl.pointer[id] ELSE 0
        p1  == IF ok THEN pl ELSE [pl EXCEPT !.pointer = (id :> 0) @@ pl.pointer]
    IN
    IF ptr >= Len(offsets)
    THEN [p |-> p1, err |-> exhaustedResult, event |-> NoEvent]
    ELSE
    LET p2 == [p1 EXCEPT !.pointer = advance(p1.pointer, id)] IN
    IF fault = "seek"
    THEN [p |-> p2, err |-> ErrSeek, event |-> NoEvent]
    ELSE
    LET d == Decode(file, offsets[ptr + 1]) IN
    IF fault = "read"
    THEN [p |-> [p2 EXCEPT !.rs = Len(file)], err |-> ErrRead, event |-> NoEvent]
    ELSE [p |-> [p2 EXCEPT !.rs = Len(file)], err |-> d.err, event |-> d.event]

\* Player.tryGetEvent(id).  fault is "none", "seek" or "read".  The decoder reads
\* through a buffer far larger than the logs modelled here, so a decode leaves
\* the stream position at the end of the data.
tryGetEvent(pl, id, fault) ==
    IF id \notin DOMAIN pl.idx
    THEN [p |-> pl, err |-> ErrNotFound, event |-> NoEvent]
    ELSE
    LET offsets == pl.idx[id]
        ok  == id \in DOMAIN pl.pointer
        ptr == IF ok THEN pl.pointer[id] ELSE 0
        p1  == IF ok THEN pl ELSE [pl EXCEPT !.pointer = (id :> 0) @@ pl.pointer]
    IN
    IF ptr >= Len(offsets)
    THEN [p |-> p1, err |-> exhaustedResult, event |-> NoEvent]
    ELSE IF fault = "seek"
    THEN [p |-> p1, err |-> ErrSeek, event |-> NoEvent]
    ELSE
    LET p2 == [p1 EXCEPT !.rs = offsets[ptr + 1]]
        d  == Decode(file, p2.rs)
    IN
    IF fault = "read"
    THEN [p |-> [p2 EXCEPT !.rs = Len(file)], err |-> ErrRead, event |-> NoEvent]
    ELSE IF d.err # ErrNone
    THEN [p |-> [p2 EXCEPT !.rs = Len(file)], err |-> d.err, event |-> NoEvent]
    ELSE
    [p |-> [p2 EXCEPT !.rs = Len(file), !.pointer = advance(p2.pointer, id)],
     err |-> ErrNone, event |-> d.event]

\* Player.hasMore(id): the answer and the Player (hasMore initialises the
\* pointer entry of a known id).
hasMore(pl, id) ==
    IF id \notin DOMAIN pl.idx THEN [p |-> pl, more |-> FALSE]
    ELSE
    LET offsets == pl.idx[id]
        ok  == id \in DOMAIN pl.pointer
        ptr == IF ok THEN pl.pointer[id] ELSE 0
        p1  == IF ok THEN pl ELSE [pl EXCEPT !.pointer = (id :> 0) @@ pl.pointer]
    IN [p |-> p1, more |-> ptr < Len(offsets)]

\* Mutant of Reset: the cursors are kept.
ResetKeepsPointer(pl, fault) ==
    IF fault = "seek" THEN [p |-> pl, err |-> ErrSeek]
    ELSE [p |-> [pl EXCEPT !.rs = 0], err |-> ErrNone]

\* Player.Reset: a fresh pointer map, then the seek to the start.
Reset(pl, fault) ==
    LET p1 == [pl EXCEPT !.pointer = EmptyMap] IN
    IF fault = "seek" THEN [p |-> p1, err |-> ErrSeek]
    ELSE [p |-> [p1 EXCEPT !.rs = 0], err |-> ErrNone]

\* The consumer (Channeler) c records its invocations and fails its failAt-th
\* one (never, if failAt = 0).
Invoke(c, call) ==
    LET calls == Append(c.calls, call) IN
    [c |-> [c EXCEPT !.calls = calls],
     err |-> IF Len(calls) = c.failAt THEN ErrConsumer ELSE ErrNone]

\* Mutant of emit: file records are delivered as thread messages.
emitFilesAsThread(c, evt) ==
    CASE evt.Type = EventMessages ->
            Invoke(c, [method |-> "Messages", ChannelID |-> evt.ChannelID,
                       Parent |-> NoParent, Payload |-> evt.Payload])
      [] evt.Type \in {EventThreadMessages, EventFiles} ->
            Invoke(c, [method |-> "ThreadMessages", ChannelID |-> evt.ChannelID,
                       Parent |-> evt.Parent, Payload |-> evt.Payload])
      [] OTHER -> [c |-> c, err |-> ErrNone]

\* Player.emit(c, evt): the dispatch on evt.Type.
emit(c, evt) ==
    CASE evt.Type = EventMessages ->
            Invoke(c, [method |-> "Messages", ChannelID |-> evt.ChannelID,
                       Parent |-> NoParent, Payload |-> evt.Payload])
      [] evt.Type = EventThreadMessages ->
            Invoke(c, [method |-> "ThreadMessages", ChannelID |-> evt.ChannelID,
                       Parent |-> evt.Parent, Payload |-> evt.Payload])
      [] evt.Type = EventFiles ->
            Invoke(c, [method |-> "Files", ChannelID |-> evt.ChannelID,
                       Parent |-> evt.Parent, Payload |-> evt.Payload])
      [] OTHER -> [c |-> c, err |-> ErrNone]

RECURSIVE replayFrom(_, _, _, _, _)
\* The loop of Replay: n is the number of the next Decode call, readErrAt the
\* Decode call that meets a read failure (none, if 0).
replayFrom(data, off, c, n, readErrAt) ==
    IF n = readErrAt THEN [c |-> c, err |-> ErrRead]
    ELSE
    LET d == Decode(data, off) IN
    IF d.err = EOF THEN [c |-> c, err |-> ErrNone]
    ELSE IF d.err # ErrNone THEN [c |-> c, err |-> d.err]
    ELSE LET r == emit(c, d.event) IN
         IF r.err # ErrNone THEN r
         ELSE replayFrom(data, d.end, r.c, n + 1, readErrAt)

\* Player.Replay(c): Reset, one pass over the whole stream, and the deferred
\* seek to the start.
Replay(pl, c, fault, readErrAt) ==
    LET r0 == Reset(pl, fault) IN
    IF r0.err # ErrNone THEN [p |-> r0.p, c |-> c, err |-> r0.err]
    ELSE LET r == replayFrom(file, r0.p.rs, c, 1, readErrAt)
         IN [p |-> [r0.p EXCEPT !.rs = 0], c |-> r.c, err |-> r.err]

-----------------------------------------------------------------------------
(* The Player state machine *)

NoOut == [op |-> "none"]

\* The pipeline's variables, idle while the Player machine runs.
ExportIdle ==
    /\ list = [Include |-> <<>>, Exclude |-> {}]
    /\ listing = <<>>
    /\ memberOnly = FALSE
    /\ stubHangs = FALSE
    /\ cancelled = FALSE
    /\ pc = <<>>
    /\ next = 0
    /\ res = <<>>
    /\ errC = <<>>
    /\ errCClosed = FALSE
    /\ linksClosed = FALSE
    /\ wg = 0
    /\ ret = "idle"
    /\ arrived = <<>>
    /\ links = <<>>
    /\ sent = <<>>
    /\ received = <<>>
    /\ proc = <<>>

\* The Directory's variables, idle while another machine runs.
DirIdle ==
    /\ dir = <<>>
    /\ dirs = {}
    /\ files = EmptyMap
    /\ client = <<>>

PlayerInit ==
    /\ ExportIdle
    /\ DirIdle
    /\ file = <<>>
    /\ log = <<>>
    /\ p = NoPlayer
    /\ returned = EmptyMap
    /\ out = NoOut

\* Recorder: append one event to the log file (before any Player is opened).
RecordEvent ==
    /\ ~p.open
    /\ Len(log) < MaxLog
    /\ \E evt \in EventsAt(Len(log) + 1) :
          /\ file' = file \o Encode(evt)
          /\ log' = Append(log, evt)
    /\ UNCHANGED <<p, returned, out, exportVars, dirVars>>

\* The bytes of the n-th record are damaged: something that is no JSON value,
\* or the value of a thread-scoped event cut short before its end.
RecordDamaged ==
    /\ ~p.open
    /\ Len(log) < MaxLog
    /\ \/ file' = file \o <<<<Damaged(Len(log) + 1), 0>>, NL>>
       \/ \E evt \in EventsAt(Len(log) + 1) :
             /\ Size(evt) > 1
             /\ file' = file \o <<<<evt, 1>>>>
    /\ log' = Append(log, Damaged(Len(log) + 1))
    /\ UNCHANGED <<p, returned, out, exportVars, dirVars>>

OpenPlayer ==
    /\ ~p.open
    /\ \E fault \in {"none", "seek", "read"} :
          LET r == NewPlayer(0, fault) IN
          /\ p' = r.p
          /\ out' = [op |-> "NewPlayer", err |-> r.err]
    /\ returned' = EmptyMap
    /\ UNCHANGED <<file, log, exportVars, dirVars>>

\* Messages(channelID) and Thread(channelID, threadTS): one tryGetEvent.
GetEvent ==
    /\ p.open
    /\ \E id \in RequestIDs, fault \in {"none", "seek", "read"} :
          LET r == tryGetEvent(p, id, fault) IN
          /\ p' = r.p
          /\ out' = [op |-> "tryGetEvent", id |-> id, err |-> r.err, event |-> r.event]
          /\ returned' =
                IF r.err # ErrNone THEN returned
                ELSE (id :> Append(IF id \in DOMAIN returned THEN returned[id] ELSE <<>>,
                                   r.event)) @@ returned
    /\ UNCHANGED <<file, log, exportVars, dirVars>>

\* HasMoreMessages(channelID) and HasMoreThreads(channelID, threadTS).
HasMore ==
    /\ p.open
    /\ \E id \in RequestIDs :
          LET r == hasMore(p, id) IN
          /\ p' = r.p
          /\ out' = [op |-> "hasMore", id |-> id, more |-> r.more]
    /\ UNCHANGED <<file, log, returned, exportVars, dirVars>>

DoReset ==
    /\ p.open
    /\ \E fault \in {"none", "seek"} :
          LET r == Reset(p, fault) IN
          /\ p' = r.p
          /\ out' = [op |-> "Reset", err |-> r.err, before |-> p.pointer]
    /\ returned' = EmptyMap
    /\ UNCHANGED <<file, log, exportVars, dirVars>>

\* One Replay call meets at most one failure: of Reset's seek, of the n-th
\* Decode, or of the consumer's n-th invocation.
ReplayFaults(n) ==
    {[fault |-> "none", failAt |-> 0, readErrAt |-> 0],
     [fault |-> "seek", failAt |-> 0, readErrAt |-> 0]}
    \cup {[fault |-> "none", failAt |-> k, readErrAt |-> 0] : k \in 1..n}
    \cup {[fault |-> "none", failAt |-> 0, readErrAt |-> k] : k \in 1..n}

DoReplay ==
    /\ p.open
    /\ \E f \in ReplayFaults(Len(log)) :
          LET r == Replay(p, [calls |-> <<>>, failAt |-> f.failAt], f.fault, f.readErrAt) IN
          /\ p' = r.p
          /\ out' = [op |-> "Replay", err |-> r.err, calls |-> r.c.calls]
    /\ returned' = EmptyMap
    /\ UNCHANGED <<file, log, exportVars, dirVars>>

PlayerNext ==
    \/ RecordEvent
    \/ RecordDamaged
    \/ OpenPlayer
    \/ GetEvent
    \/ HasMore
    \/ DoReset
    \/ DoReplay

PlayerSpec == PlayerInit /\ [][PlayerNext]_vars

-----------------------------------------------------------------------------
(* Properties of the Player *)

\* The events written with the given id, in append order.
Written(id) == SelectSeq(log, LAMBDA evt : ID(evt) = id)

\* The events retrieved for id since the cursors were last cleared.
Retrieved(id) == IF id \in DOMAIN returned THEN returned[id] ELSE <<>>

\* The Player a fresh NewPlayer builds over the same log.
FreshPlayer == NewPlayer(0, "none").p

\* What a caller sees of tryGetEvent and hasMore.
Answer(pl, id) ==
    LET r == tryGetEvent(pl, id, "none") IN
    [err |-> r.err, event |-> r.event, more |-> hasMore(pl, id).more]

\* C1: for every id, the events retrieve-next(id) has returned are the first
\* events written with that id, in append order and one per call, whatever was
\* retrieved for other ids in between; has-more(id) is true exactly while some
\* event of the id is not yet retrieved, and a retrieval fails as not found or
\* at the end of the data only when nothing is left to retrieve.
C1_RetrieveInAppendOrder ==
    p.open =>
        /\ \A id \in RequestIDs :
              /\ Len(Retrieved(id)) <= Len(Written(id))
              /\ Retrieved(id) = SubSeq(Written(id), 1, Len(Retrieved(id)))
              /\ hasMore(p, id).more = (Len(Retrieved(id)) < Len(Written(id)))
        /\ (out.op = "tryGetEvent" /\ out.err = ErrNone) =>
              out.event = Written(out.id)[Len(Retrieved(out.id))]
        /\ (out.op = "tryGetEvent" /\ out.err \notin {ErrNone, ErrSeek, ErrRead}) =>
              Len(Retrieved(out.id)) = Len(Written(out.id))

\* C1 witness: an id written twice has had both events retrieved, and has-more
\* has just answered false for it.
C1_Witness ==
    /\ p.open
    /\ out.op = "hasMore"
    /\ ~out.more
    /\ Len(Written(out.id)) = 2
    /\ Retrieved(out.id) = Written(out.id)

\* C2 (as claimed): retrieve-next on an id never written fails with ErrNotFound,
\* and on an id whose events have all been consumed with ErrExhausted.
C2_NotFoundAndExhausted ==
    (p.open /\ out.op = "tryGetEvent") =>
        /\ Written(out.id) = <<>> => out.err = ErrNotFound
        /\ (/\ Written(out.id) # <<>>
            /\ out.err # ErrNone
            /\ Len(Retrieved(out.id)) = Len(Written(out.id))) => out.err = ErrExhausted

\* The calls a consumer receives for the records of a log: one per record with
\* a Messages, ThreadMessages or Files tag, none for any other record.
Dispatchable(evt) == evt.Type \in {EventMessages, EventThreadMessages, EventFiles}

CallFor(evt) ==
    [method |-> IF evt.Type = EventMessages THEN "Messages"
                ELSE IF evt.Type = EventThreadMessages THEN "ThreadMessages"
                ELSE "Files",
     ChannelID |-> evt.ChannelID, Parent |-> evt.Parent, Payload |-> evt.Payload]

ExpectedCalls ==
    LET d == SelectSeq(log, Dispatchable) IN [i \in 1..Len(d) |-> CallFor(d[i])]

\* C3 (as claimed): a Replay that returns nil has invoked the consumer once per
\* record of the log, in write order, whatever the records' type tags.
C3_ReplayEveryRecord ==
    (p.open /\ out.op = "Replay" /\ out.err = ErrNone) =>
        /\ Len(out.calls) = Len(log)
        /\ \A i \in 1..Len(log) : out.calls[i].Payload = log[i].Payload

\* C3 (amended): Replay invokes the consumer once, in write order, for every
\* record tagged Messages, ThreadMessages or Files that it reaches, and never
\* for a record with another tag; a Replay that returns nil has reached them
\* all, so its invocations are as many as the records with these three tags.
C3_ReplayDispatchable ==
    (p.open /\ out.op = "Replay") =>
        /\ Len(out.calls) <= Len(ExpectedCalls)
        /\ out.calls = SubSeq(ExpectedCalls, 1, Len(out.calls))
        /\ out.err = ErrNone => out.calls = ExpectedCalls

\* C3 witness: a Replay returned nil over a log of two dispatchable records
\* with different ids and delivered both.
C3_Witness ==
    /\ p.open
    /\ out.op = "Replay"
    /\ out.err = ErrNone
    /\ Len(log) = 2
    /\ Len(out.calls) = 2
    /\ ID(log[1]) # ID(log[2])

\* C4: after Reset the index is the index NewPlayer built, no cursor is set,
\* every id answers retrieve-next and has-more as on a fresh Player over the
\* same log, and a second Reset changes nothing the first one set.
C4_ResetRestoresFresh ==
    (p.open /\ out.op = "Reset") =>
        /\ p.idx = FreshPlayer.idx
        /\ p.pointer = EmptyMap
        /\ out.err = ErrNone => p = FreshPlayer
        /\ \A id \in RequestIDs : Answer(p, id) = Answer(FreshPlayer, id)
        /\ \A f \in {"none", "seek"} :
              /\ Reset(p, f).p.idx = p.idx
              /\ Reset(p, f).p.pointer = p.pointer
        /\ out.err = ErrNone => Reset(p, "none").p = p

\* C4 witness: Reset has just cleared a cursor that retrievals had moved to the
\* end of its id's events.
C4_Witness ==
    /\ p.open
    /\ out.op = "Reset"
    /\ out.err = ErrNone
    /\ \E id \in DOMAIN out.before :
          /\ out.before[id] = 2
          /\ Len(Written(id)) = 2

\* The next-unread position of id, an absent entry counting as 0.
Position(pl, id) == IF id \in DOMAIN pl.pointer THEN pl.pointer[id] ELSE 0

\* A step of has-more, or of a retrieve-next that failed.
NoRetrieval ==
    /\ p.open
    /\ p'.open
    /\ \/ out'.op = "hasMore"
       \/ out'.op = "tryGetEvent" /\ out'.err # ErrNone

\* C15: has-more and every failed retrieve-next leave the next-unread position
\* of every id where it was, and the index too, so that every id answers the
\* next retrieve-next and has-more as it would have before.
C15_CursorFrame ==
    [][NoRetrieval =>
        /\ p'.idx = p.idx
        /\ \A id \in RequestIDs :
              /\ Position(p', id) = Position(p, id)
              /\ Answer(p', id) = Answer(p, id)]_vars

\* C15 witness: a retrieve-next has failed at its seek for an id of two events
\* of which one had been retrieved, and the position of the id is still 1.
C15_Witness ==
    /\ p.open
    /\ out.op = "tryGetEvent"
    /\ out.err = ErrSeek
    /\ Len(Written(out.id)) = 2
    /\ Position(p, out.id) = 1

\* Some record of the log is damaged.
Malformed == \E i \in 1..Len(log) : log[i] = Damaged(i)

\* The ids of the records of the log.
WrittenIDs == {ID(log[i]) : i \in 1..Len(log)}

\* idx holds, for every id written, one offset per record of the id, in write
\* order, each the place in the stream from which that record is read.
CompleteIndex(idx) ==
    /\ DOMAIN idx = WrittenIDs
    /\ \A id \in WrittenIDs :
          /\ Len(idx[id]) = Len(Written(id))
          /\ \A i \in 1..Len(idx[id]) :
                /\ Decode(file, idx[id][i]).err = ErrNone
                /\ Decode(file, idx[id][i]).event = Written(id)[i]
                /\ i > 1 => idx[id][i - 1] < idx[id][i]

\* C16: NewPlayer either fails, and then there is no Player and no index, or
\* succeeds with the complete index and the stream back at its start; over a
\* log with a damaged record it fails, so a Player never holds an index of
\* only the records before the damaged one.
C16_IndexAllOrNothing ==
    /\ p.open => ~Malformed /\ CompleteIndex(p.idx)
    /\ out.op = "NewPlayer" =>
          /\ out.err = ErrNone <=> p.open
          /\ out.err # ErrNone => p = NoPlayer
          /\ out.err = ErrNone => p.rs = 0 /\ p.pointer = EmptyMap
          /\ Malformed => out.err # ErrNone

\* C16 witness: NewPlayer has failed over a log whose first record is sound and
\* whose second record is damaged.
C16_Witness ==
    /\ out.op = "NewPlayer"
    /\ out.err = ErrSyntax
    /\ p = NoPlayer
    /\ Len(log) = 2
    /\ log[1] # Damaged(1)
    /\ log[2] = Damaged(2)

-----------------------------------------------------------------------------
(* exportV3: the concurrent export pipeline *)

Feeder == "feeder"
User   == "user"
Conv   == "conv"
Workers == {Feeder, User, Conv}
Caller   == "caller"
Sentinel == "sentinel"

\* make(chan error, 1)
ErrCCap == 1

ErrCtx          == "context canceled"
ErrNewChannels  == "channel processor: create failed"
ErrListChannels == "error listing channels"
ErrCloseChannels == "error closing channel processor"
ErrNewUsers     == "user processor: create failed"
ErrListUsers    == "error listing users"
ErrCloseUsers   == "error closing user processor"
ErrInitConv     == "error initialising conversation processor"
ErrStreamConv   == "error streaming conversations"

Running == "running"    \* exportV3 has not returned

\* list.HasIncludes()
HasIncludes == list.Include # <<>>

\* list.Index(): the include flag of every id the EntityList mentions.
Index ==
    [id \in {list.Include[i] : i \in 1..Len(list.Include)} \cup list.Exclude |->
        id \notin list.Exclude]

\* Mutant of Dropped: the exclusions of the EntityList are not consulted.
DroppedNonMembersOnly(ch) == memberOnly /\ ~ch.IsMember

\* The filter of apiChannelGenerator's callback: the channel is passed over.
Dropped(ch) ==
    \/ memberOnly /\ ~ch.IsMember
    \/ ch.ID \in DOMAIN Index /\ ~Index[ch.ID]

\* Mutant of Items: the generator walks through its ids from the last one.
ItemsBackwards ==
    LET ids == IF HasIncludes THEN list.Include
               ELSE [i \in 1..Len(listing) |-> listing[i].ID]
    IN [i \in 1..Len(ids) |-> ids[Len(ids) + 1 - i]]

\* The ids the generator in use walks through, before filtering.
Items ==
    IF HasIncludes THEN list.Include
    ELSE [i \in 1..Len(listing) |-> listing[i].ID]

\* A remote call returns: on its own unless the remote side hangs, and in any
\* case once ctx is done.
RemoteReturns == ~stubHangs \/ cancelled
\* ... with success only if the remote side answers.
RemoteSucceeds == ~stubHangs

\* An event-log processor (baseproc): whether it is open, and what its Close
\* has closed, in order.
NoProc   == [open |-> FALSE, closed |-> <<>>]
OpenProc == [open |-> TRUE, closed |-> <<>>]

\* baseproc.Close: the recorder, then the gzip stream, then the file; a failure
\* of one still closes those after it.
baseprocClose(pr) == [open |-> FALSE, closed |-> <<"Recorder", "gz", "wf">>]

\* Mutant of LinksCap: the entity-id queue is made with the capacity of the
\* error channel, and buffers an id.
LinksCapBuffered == ErrCCap

\* make(chan string)
LinksCap == 0

\* Mutant of stopsOn: the caller's loop returns on no value.
stopsOnNothing(err) == FALSE

\* The caller's loop returns on this value (if err != nil).
stopsOn(err) == err # ErrNone

Goto(g, to) == pc' = [pc EXCEPT ![g] = to]
Finish(w, err) ==
    /\ res' = [res EXCEPT ![w] = err]
    /\ Goto(w, "report")

(* The inputs of a run *)
IncludeLists ==
    UNION {[1..n -> Channels] : n \in 1..MaxList}
Listings ==
    {l \in UNION {[1..n -> [ID : Channels, IsMember : BOOLEAN]] : n \in 0..MaxList} :
        \A i, j \in 1..Len(l) : l[i].ID = l[j].ID => i = j}

\* The Player's variables, idle while the pipeline runs.
PlayerIdle ==
    /\ file = <<>>
    /\ log = <<>>
    /\ p = NoPlayer
    /\ returned = EmptyMap
    /\ out = NoOut

\* The state once exportV3 has started its goroutines (line 77): either an
\* inclusive export or an exclusive one over the API's listing.
ExportInit ==
    /\ PlayerIdle
    /\ DirIdle
    /\ \/ /\ list \in [Include : IncludeLists, Exclude : {{}}]
          /\ listing = <<>>
          /\ memberOnly = FALSE
       \/ /\ list \in [Include : {<<>>}, Exclude : SUBSET Channels]
          /\ listing \in Listings
          /\ memberOnly \in BOOLEAN
    /\ stubHangs \in BOOLEAN
    /\ cancelled = FALSE
    /\ pc = [g \in Workers \cup {Caller, Sentinel} |->
                IF g \in Workers THEN "start" ELSE IF g = Caller THEN "range" ELSE "wait"]
    /\ next = 1
    /\ res = [w \in Workers |-> ErrNone]
    /\ errC = <<>>
    /\ errCClosed = FALSE
    /\ linksClosed = FALSE
    /\ wg = 3
    /\ ret = Running
    /\ arrived = <<>>
    /\ links = <<>>
    /\ sent = <<>>
    /\ received = <<>>
    /\ proc = [w \in Workers |-> NoProc]

inputs == <<list, listing, memberOnly, stubHangs>>
chans  == <<errC, errCClosed, linksClosed, wg, ret, arrived>>
queue  == <<links, sent, received>>

(* The feeder goroutine *)

\* The generator is chosen and starts; the API generator opens its channel
\* processor first.
FeederStart ==
    /\ pc[Feeder] = "start"
    /\ \/ HasIncludes /\ Goto(Feeder, "gen") /\ UNCHANGED <<res, proc>>
       \/ /\ ~HasIncludes
          /\ Goto(Feeder, "list")
          /\ proc' = [proc EXCEPT ![Feeder] = OpenProc]
          /\ UNCHANGED res
       \/ ~HasIncludes /\ Finish(Feeder, ErrNewChannels) /\ UNCHANGED proc
    /\ UNCHANGED <<dirVars, playerVars, inputs, cancelled, next, chans, queue>>

\* s.ListChannels: the remote listing call answers, or fails.
FeederList ==
    /\ pc[Feeder] = "list"
    /\ RemoteReturns
    /\ \/ RemoteSucceeds /\ Goto(Feeder, "gen") /\ UNCHANGED res
       \/ Finish(Feeder, ErrListChannels)
    /\ UNCHANGED <<dirVars, playerVars, inputs, proc, cancelled, next, chans, queue>>

\* The callback passes over a filtered channel.
FeederSkip ==
    /\ pc[Feeder] = "gen"
    /\ ~HasIncludes
    /\ next <= Len(listing)
    /\ Dropped(listing[next])
    /\ next' = next + 1
    /\ UNCHANGED <<dirVars, playerVars, inputs, proc, cancelled, pc, res, chans, queue>>

\* The feeder is at its select with an id to send.
FeederOffers ==
    /\ pc[Feeder] = "gen"
    /\ next <= Len(Items)
    /\ IF HasIncludes THEN TRUE ELSE ~Dropped(listing[next])

\* links <- ch: the rendezvous of the feeder's send with the conversation
\* worker's receive.
FeederSend ==
    /\ FeederOffers
    /\ sent' = Append(sent, Items[next])
    /\ next' = next + 1
    /\ IF pc[Conv] = "recv" /\ links = <<>>
       THEN /\ received' = Append(received, Items[next])
            /\ Goto(Conv, "fetch")
            /\ UNCHANGED links
       ELSE /\ Len(links) < LinksCap
            /\ links' = Append(links, Items[next])
            /\ UNCHANGED <<received, pc>>
    /\ UNCHANGED <<dirVars, playerVars, inputs, proc, cancelled, res, chans>>

\* case <-ctx.Done(): the generator returns ctx.Err(), which ListChannels
\* hands back to the API generator.
FeederCancelled ==
    /\ FeederOffers
    /\ cancelled
    /\ Finish(Feeder, IF HasIncludes THEN ErrCtx ELSE ErrListChannels)
    /\ UNCHANGED <<dirVars, playerVars, inputs, proc, cancelled, next, chans, queue>>

\* The loop is over: listChannelGenerator returns nil, the API generator
\* closes its channel processor.
FeederEnd ==
    /\ pc[Feeder] = "gen"
    /\ next > Len(Items)
    /\ \/ HasIncludes /\ Finish(Feeder, ErrNone) /\ UNCHANGED proc
       \/ /\ ~HasIncludes
          /\ \E err \in {ErrNone, ErrCloseChannels} : Finish(Feeder, err)
          /\ proc' = [proc EXCEPT ![Feeder] = baseprocClose(@)]
    /\ UNCHANGED <<dirVars, playerVars, inputs, cancelled, next, chans, queue>>

\* defer close(links)
FeederCloseLinks ==
    /\ pc[Feeder] = "close"
    /\ linksClosed' = TRUE
    /\ Goto(Feeder, "wgdone")
    /\ UNCHANGED <<dirVars, playerVars, inputs, proc, cancelled, next, res, errC, errCClosed, wg,
                   ret, arrived, queue>>

(* The user goroutine *)

UserStart ==
    /\ pc[User] = "start"
    /\ \/ /\ Goto(User, "users")
          /\ proc' = [proc EXCEPT ![User] = OpenProc]
          /\ UNCHANGED res
       \/ Finish(User, ErrNewUsers) /\ UNCHANGED proc
    /\ UNCHANGED <<dirVars, playerVars, inputs, cancelled, next, chans, queue>>

\* s.Users and userproc.Close
UserList ==
    /\ pc[User] = "users"
    /\ RemoteReturns
    /\ \/ /\ RemoteSucceeds
          /\ \E err \in {ErrNone, ErrCloseUsers} : Finish(User, err)
          /\ proc' = [proc EXCEPT ![User] = baseprocClose(@)]
       \/ Finish(User, ErrListUsers) /\ UNCHANGED proc
    /\ UNCHANGED <<dirVars, playerVars, inputs, cancelled, next, chans, queue>>

(* The conversations goroutine *)

ConvStart ==
    /\ pc[Conv] = "start"
    /\ \/ /\ Goto(Conv, "recv")
          /\ proc' = [proc EXCEPT ![Conv] = OpenProc]
          /\ UNCHANGED res
       \/ Finish(Conv, ErrInitConv) /\ UNCHANGED proc
    /\ UNCHANGED <<dirVars, playerVars, inputs, cancelled, next, chans, queue>>

\* AsyncConversations receives from links: an id the queue holds, or, with the
\* queue empty and closed, the end of its input, on which it returns nil.  While
\* it waits for an id the worker leaves only this way: cancellation reaches it
\* through the feeder's close(links) and through its remote calls.
ConvReceive ==
    /\ pc[Conv] = "recv"
    /\ IF links # <<>>
       THEN /\ received' = Append(received, Head(links))
            /\ links' = Tail(links)
            /\ Goto(Conv, "fetch")
            /\ UNCHANGED res
       ELSE /\ linksClosed
            /\ Finish(Conv, ErrNone)
            /\ UNCHANGED <<links, received>>
    /\ UNCHANGED <<dirVars, playerVars, inputs, proc, cancelled, next, chans, sent>>

\* AsyncConversations fetches the conversation of the id it received.
ConvFetch ==
    /\ pc[Conv] = "fetch"
    /\ RemoteReturns
    /\ \/ RemoteSucceeds /\ Goto(Conv, "recv") /\ UNCHANGED res
       \/ Finish(Conv, ErrStreamConv)
    /\ UNCHANGED <<dirVars, playerVars, inputs, proc, cancelled, next, chans, queue>>

(* What the three workers share *)

\* errC <- result: the send completes when the buffer has room.
Report(w) ==
    /\ pc[w] = "report"
    /\ Len(errC) < ErrCCap
    /\ errC' = Append(errC, res[w])
    /\ arrived' = Append(arrived, res[w])
    /\ Goto(w, IF w = Feeder THEN "close" ELSE "wgdone")
    /\ UNCHANGED <<dirVars, playerVars, inputs, proc, cancelled, next, res, errCClosed, linksClosed,
                   wg, ret, queue>>

\* defer wg.Done()
WgDone(w) ==
    /\ pc[w] = "wgdone"
    /\ wg' = wg - 1
    /\ Goto(w, "done")
    /\ UNCHANGED <<dirVars, playerVars, inputs, proc, cancelled, next, res, errC, errCClosed,
                   linksClosed, ret, arrived, queue>>

\* Mutant of SentinelClose: the sentinel waits for two workers only.
SentinelCloseEarly ==
    /\ pc[Sentinel] = "wait"
    /\ wg <= 1
    /\ errCClosed' = TRUE
    /\ Goto(Sentinel, "done")
    /\ UNCHANGED <<dirVars, playerVars, inputs, proc, cancelled, next, res, errC,
                   linksClosed, wg, ret, arrived, queue>>

\* The sentinel: wg.Wait(); close(errC)
SentinelClose ==
    /\ pc[Sentinel] = "wait"
    /\ wg = 0
    /\ errCClosed' = TRUE
    /\ Goto(Sentinel, "done")
    /\ UNCHANGED <<dirVars, playerVars, inputs, proc, cancelled, next, res, errC, linksClosed, wg,
                   ret, arrived, queue>>

(* The caller: for err := range errC *)

CallerReceive ==
    /\ pc[Caller] = "range"
    /\ errC # <<>>
    /\ errC' = Tail(errC)
    /\ IF stopsOn(Head(errC))
       THEN ret' = Head(errC) /\ Goto(Caller, "returned")
       ELSE UNCHANGED <<ret, pc>>
    /\ UNCHANGED <<dirVars, playerVars, inputs, proc, cancelled, next, res, errCClosed, linksClosed,
                   wg, arrived, queue>>

CallerEnd ==
    /\ pc[Caller] = "range"
    /\ errC = <<>>
    /\ errCClosed
    /\ ret' = ErrNone
    /\ Goto(Caller, "returned")
    /\ UNCHANGED <<dirVars, playerVars, inputs, proc, cancelled, next, res, errC, errCClosed,
                   linksClosed, wg, arrived, queue>>

\* Whoever holds ctx cancels it.
Cancel ==
    /\ ~cancelled
    /\ \E g \in DOMAIN pc : pc[g] \notin {"done", "returned"}
    /\ cancelled' = TRUE
    /\ UNCHANGED <<dirVars, playerVars, inputs, proc, pc, next, res, chans, queue>>

FeederStep ==
    \/ FeederStart
    \/ FeederList
    \/ FeederSkip
    \/ FeederSend
    \/ FeederCancelled
    \/ FeederEnd
    \/ Report(Feeder)
    \/ FeederCloseLinks
    \/ WgDone(Feeder)

UserStep ==
    \/ UserStart
    \/ UserList
    \/ Report(User)
    \/ WgDone(User)

ConvStep ==
    \/ ConvStart
    \/ ConvReceive
    \/ ConvFetch
    \/ FeederSend
    \/ Report(Conv)
    \/ WgDone(Conv)

CallerStep ==
    \/ CallerReceive
    \/ CallerEnd

ExportNext ==
    \/ FeederStep
    \/ UserStep
    \/ ConvStep
    \/ SentinelClose
    \/ CallerStep
    \/ Cancel

ExportSpec == ExportInit /\ [][ExportNext]_vars

\* Every goroutine that can take a step eventually takes one.  Nothing forces
\* a cancellation.
ExportFairSpec ==
    /\ ExportSpec
    /\ WF_vars(FeederStep)
    /\ WF_vars(UserStep)
    /\ WF_vars(ConvStep)
    /\ WF_vars(SentinelClose)
    /\ WF_vars(CallerStep)

-----------------------------------------------------------------------------
(* Properties of exportV3 *)

\* The worker has sent its terminal result on errC.
Reported(w) == pc[w] \in {"close", "wgdone", "done"}

\* The worker's own work is over: it has its terminal result in hand.
WorkOver(w) == pc[w] \in {"report", "close", "wgdone", "done"}

\* The first value of a sequence of results that is not nil; nil if there is none.
FirstError(seq) ==
    LET I == {i \in 1..Len(seq) : seq[i] # ErrNone} IN
    IF I = {} THEN ErrNone
    ELSE seq[CHOOSE i \in I : \A j \in I : i <= j]

\* C5: exportV3 returns nil only when all three workers have reported nil, and
\* otherwise the first non-nil error in the order of arrival on the error
\* channel; what arrives later does not change the value returned.
C5_FirstErrorWins ==
    pc[Caller] = "returned" =>
        /\ ret = FirstError(arrived)
        /\ ret = ErrNone <=> \A w \in Workers : Reported(w) /\ res[w] = ErrNone

\* C5 witness: exportV3 has returned an error, and another error has arrived
\* on the channel after it.
C5_Witness ==
    /\ pc[Caller] = "returned"
    /\ ret # ErrNone
    /\ \E i \in 1..Len(arrived) : arrived[i] \notin {ErrNone, ret}

\* C6 (as claimed): the error channel holds a terminal result of every worker,
\* so a worker that has its result can send it at once, also after the caller
\* has returned and receives no more.
C6_TerminalSendNeverBlocks ==
    \A w \in Workers :
        (pc[w] = "report" /\ pc[Caller] = "returned") => Len(errC) < ErrCCap

\* C7 (as claimed): once the feeder's production has ended, the entity-id
\* queue is eventually closed.
C7_LinksEventuallyClosed == WorkOver(Feeder) ~> linksClosed

\* C8 (as claimed): exportV3 returns only after the sentinel has closed the
\* error channel.
C8_ReturnsAfterClose == pc[Caller] = "returned" => errCClosed

\* C9 (as claimed): after a cancellation the entity-id queue is eventually
\* closed and exportV3 eventually returns.
C9_CancelTerminates == cancelled ~> (linksClosed /\ pc[Caller] = "returned")

\* C10 (as claimed): in a run without cancellation whose remote calls return,
\* once a worker has reported an error every worker eventually finishes its own
\* work.
C10_OthersFinish ==
    (~stubHangs /\ \E w \in Workers : Reported(w) /\ res[w] # ErrNone)
        ~> (cancelled \/ \A w \in Workers : WorkOver(w))

\* C13: with an inclusion list the feeder makes no remote call and opens no
\* listing log, and what the conversation worker has received is at every moment
\* the first ids of the inclusion list, in input order; once the queue is closed
\* by a feeder that was not cancelled, the whole list has been received.
C13_DirectFeederInOrder ==
    HasIncludes =>
        /\ pc[Feeder] # "list"
        /\ proc[Feeder] = NoProc
        /\ Len(received) <= Len(list.Include)
        /\ received = SubSeq(list.Include, 1, Len(received))
        /\ (linksClosed /\ (~cancelled \/ res[Feeder] = ErrNone)) =>
              received = list.Include

\* C13 witness: an inclusion list of two different ids has been received in
\* full and the queue is closed, without a cancellation.
C13_Witness ==
    /\ HasIncludes
    /\ ~cancelled
    /\ linksClosed
    /\ Len(list.Include) = 2
    /\ list.Include[1] # list.Include[2]
    /\ received = list.Include

\* A listed channel passes both filters of the discovery feeder.
Kept(ch) == (memberOnly => ch.IsMember) /\ ch.ID \notin list.Exclude

\* The ids of the channels that pass the filters among the first n listed.
Survivors(n) ==
    LET k == SelectSeq(SubSeq(listing, 1, n), Kept) IN [i \in 1..Len(k) |-> k[i].ID]

\* C14: the discovery feeder has enqueued, in listing order and once each,
\* exactly the channels that pass both filters among those its callback has gone
\* through; when the listing call has returned without error these are all the
\* listed channels that pass the filters.
C14_DiscoveryFilters ==
    ~HasIncludes =>
        /\ sent = Survivors(next - 1)
        /\ (WorkOver(Feeder) /\ res[Feeder] \in {ErrNone, ErrCloseChannels}) =>
              sent = Survivors(Len(listing))

\* C14 witness: in membership-only mode with an exclusion, the feeder has gone
\* through a listing of two channels, dropped one and enqueued the other.
C14_Witness ==
    /\ ~HasIncludes
    /\ memberOnly
    /\ list.Exclude # {}
    /\ WorkOver(Feeder)
    /\ res[Feeder] = ErrNone
    /\ Len(listing) = 2
    /\ Len(sent) = 1

\* C17: the entity-id queue never holds an id: the sends the feeder has
\* completed are the receives the conversation worker has completed, so the
\* feeder is at most the one send it is blocked in ahead of the worker.
C17_QueueIsRendezvous ==
    /\ links = <<>>
    /\ Len(sent) = Len(received)
    /\ sent = received

\* C17 witness: the feeder is blocked in its second send while the
\* conversation worker fetches the first id.
C17_Witness ==
    /\ FeederOffers
    /\ Len(sent) = 1
    /\ pc[Conv] = "fetch"

\* The state part of C19.
ClosedInOrder ==
    /\ errCClosed <=> pc[Sentinel] = "done"
    /\ errCClosed => \A w \in Workers : Reported(w) /\ pc[w] = "done"
    /\ linksClosed <=> pc[Feeder] \in {"wgdone", "done"}
    /\ linksClosed => ~FeederOffers

\* The step part of C19.
NoSendOnClosed ==
    /\ errCClosed => (arrived' = arrived /\ errCClosed')
    /\ linksClosed => (sent' = sent /\ linksClosed')

C20_ProcessorsClosed ==
    \A w \in Workers : WorkOver(w) => ~proc[w].open

-----------------------------------------------------------------------------
(* fsadapter.Directory: the output file system under one root *)

MaxDepth == 2       \* segments in the path a client passes

\* A path is the sequence of its segments.  "a" is an ordinary name, ".." the
\* parent directory, "..c" an ordinary name that starts with two dots.
Segments == {"..", "a", "..c"}
Paths == UNION {[1..n -> Segments] : n \in 1..MaxDepth}

\* The directories an adapter is rooted at: "out" and the working directory.
Roots == {<<"out">>, <<>>}

\* The characters of a segment.
Chars(seg) ==
    CASE seg = ".."  -> <<".", ".">>
      [] seg = "."   -> <<".">>
      [] seg = "..c" -> <<".", ".", "c">>
      [] seg = "out" -> <<"o", "u", "t">>
      [] OTHER       -> <<seg>>

RECURSIVE PathString(_)
\* The string of a path: its segments' characters with separators between.
PathString(path) ==
    IF path = <<>> THEN <<>>
    ELSE IF Len(path) = 1 THEN Chars(path[1])
    ELSE Chars(path[1]) \o <<"/">> \o PathString(Tail(path))

\* strings.HasPrefix
HasPrefix(str, prefix) ==
    Len(str) >= Len(prefix) /\ SubSeq(str, 1, Len(prefix)) = prefix

RECURSIVE cleanInto(_, _)
\* filepath.Clean of a relative path: "." is dropped, ".." removes the name
\* before it and stays where there is none.  The empty sequence is ".".
cleanInto(acc, path) ==
    IF path = <<>> THEN acc
    ELSE LET seg == Head(path) IN
         IF seg = "." THEN cleanInto(acc, Tail(path))
         ELSE IF seg = ".." /\ acc # <<>> /\ acc[Len(acc)] # ".."
         THEN cleanInto(SubSeq(acc, 1, Len(acc) - 1), Tail(path))
         ELSE cleanInto(Append(acc, seg), Tail(path))

Clean(path) == cleanInto(<<>>, path)

\* filepath.Join
Join(base, path) == Clean(base \o path)

\* filepath.Dir
Dir(path) == IF path = <<>> THEN <<>> ELSE Clean(SubSeq(path, 1, Len(path) - 1))

ErrIllegalDir == "illegal file path reference outside of working directory"
ErrRel        == "Rel: can't make path relative"
ErrNotDir     == "not a directory"
ErrIsDir      == "is a directory"
ErrNoEnt      == "no such file or directory"
ErrExist      == "file exists"

\* filepath.Rel of two clean paths: the segments they share are dropped, every
\* segment left of base becomes "..", and the result of equal paths is ".".
Rel(base, targ) ==
    LET Same == {n \in 0..Len(base) :
                    n <= Len(targ) /\ SubSeq(base, 1, n) = SubSeq(targ, 1, n)}
        n == CHOOSE k \in Same : \A j \in Same : j <= k
        ups == [i \in 1..(Len(base) - n) |-> ".."]
        rest == SubSeq(targ, n + 1, Len(targ))
    IN IF n < Len(base) /\ base[n + 1] = ".."
       THEN [err |-> ErrRel, rel |-> <<>>]
       ELSE [err |-> ErrNone,
             rel |-> IF ups \o rest = <<>> THEN <<".">> ELSE ups \o rest]

\* Mutant of ensureSubdir: every node is let through.
ensureSubdirOff(root, node) == ErrNone

\* Directory.ensureSubdir
ensureSubdir(root, node) ==
    LET r == Rel(root, node) IN
    IF r.err # ErrNone THEN r.err
    ELSE IF HasPrefix(PathString(r.rel), <<".", ".">>) THEN ErrIllegalDir
    ELSE ErrNone

(* The file system.  Paths are relative to the working directory, which
   exists like all the directories above it. *)
IsDir(path) == path \in dirs \/ \A i \in 1..Len(path) : path[i] = ".."
IsFile(path) == path \in DOMAIN files
Exists(path) == IsDir(path) \/ IsFile(path)

\* Mutant of mkdirFailed: a failed Mkdir is an error whatever is there.
mkdirFailedStrict(path, err) == err

\* os.MkdirAll after Mkdir has failed: no error if the path is a directory by now.
mkdirFailed(path, err) == IF IsDir(path) THEN ErrNone ELSE err

Clients == {1, 2}

Idle == [pc |-> "idle"]

\* The file system before any call: the root is missing, or there, or there
\* with the directory "a" in it.
InitialDirs(root) ==
    {ds \ {<<>>} : ds \in {{}, {root}, {root, root \o <<"a">>}}}

DirInit ==
    /\ PlayerIdle
    /\ ExportIdle
    /\ dir \in Roots
    /\ dirs \in InitialDirs(dir)
    /\ files = EmptyMap
    /\ client = [t \in Clients |-> Idle]

Set(t, c) == client' = [client EXCEPT ![t] = c]

\* The call is over with this result.
Return(c, err) == [c EXCEPT !.pc = "done", !.err = err]

\* The directory after at on the way down to target.
Child(at, target) == SubSeq(target, 1, Len(at) + 1)

\* os.MkdirAll(at) has returned nil inside the MkdirAll of nodeDir: the call
\* goes on to create the file, or to the Mkdir of the next directory.
Made(c) ==
    IF c.at = Dir(c.node) THEN [c EXCEPT !.pc = "create"]
    ELSE [c EXCEPT !.pc = "mkdir", !.at = Child(c.at, Dir(c.node))]

\* Create(fpath) or WriteFile(name, data): the node is joined and checked.
Begin(t) ==
    /\ client[t].pc = "idle"
    /\ \E op \in {"Create", "WriteFile"}, fpath \in Paths :
          LET node == Join(dir, fpath)
              err == ensureSubdir(dir, node)
              c == [pc |-> "stat", op |-> op, fpath |-> fpath, node |-> node,
                    at |-> Dir(node), err |-> ErrNone, failed |-> ErrNone,
                    muts |-> 0, made |-> {}]
          IN Set(t, IF err # ErrNone THEN Return(c, err) ELSE c)
    /\ UNCHANGED <<dir, dirs, files, playerVars, exportVars>>

\* mkdirAll: os.Stat(name), and nothing more if name is a directory.
StatDir(t) ==
    LET c == client[t] IN
    /\ c.pc = "stat"
    /\ Set(t, [c EXCEPT !.pc = IF IsDir(c.at) THEN "create" ELSE "mkdirall"])
    /\ UNCHANGED <<dir, dirs, files, playerVars, exportVars>>

\* os.MkdirAll(at): its Stat of at, then the same for the parent if at is
\* missing and has one.
MkdirAllStat(t) ==
    LET c == client[t] IN
    /\ c.pc = "mkdirall"
    /\ Set(t, IF IsDir(c.at) THEN Made(c)
              ELSE IF IsFile(c.at) THEN Return(c, ErrNotDir)
              ELSE IF Len(c.at) > 1 THEN [c EXCEPT !.at = Dir(c.at)]
              ELSE [c EXCEPT !.pc = "mkdir"])
    /\ UNCHANGED <<dir, dirs, files, playerVars, exportVars>>

\* os.MkdirAll: Mkdir(at), once the parent is there.
Mkdir(t) ==
    LET c == client[t] IN
    /\ c.pc = "mkdir"
    /\ IF Exists(c.at) \/ ~IsDir(Dir(c.at))
       THEN /\ Set(t, [c EXCEPT !.pc = "lstat",
                                !.failed = IF Exists(c.at) THEN ErrExist ELSE ErrNoEnt])
            /\ UNCHANGED dirs
       ELSE /\ dirs' = dirs \cup {c.at}
            /\ Set(t, Made([c EXCEPT !.muts = @ + 1, !.made = @ \cup {c.at}]))
    /\ UNCHANGED <<dir, files, playerVars, exportVars>>

\* os.MkdirAll: Lstat(at) after a failed Mkdir.
Lstat(t) ==
    LET c == client[t]
        err == mkdirFailed(c.at, c.failed)
    IN
    /\ c.pc = "lstat"
    /\ Set(t, IF err = ErrNone THEN Made(c) ELSE Return(c, err))
    /\ UNCHANGED <<dir, dirs, files, playerVars, exportVars>>

\* os.Create(node): the file is created or truncated.  os.WriteFile(node,
\* data): the same, and the data are written.
CreateFile(t) ==
    LET c == client[t] IN
    /\ c.pc = "create"
    /\ IF IsDir(c.node) \/ ~IsDir(Dir(c.node))
       THEN /\ Set(t, Return(c, IF IsDir(c.node) THEN ErrIsDir ELSE ErrNoEnt))
            /\ UNCHANGED files
       ELSE /\ files' = (c.node :> IF c.op = "Create" THEN <<>> ELSE <<t>>) @@ files
            /\ Set(t, Return([c EXCEPT !.muts = @ + 1], ErrNone))
    /\ UNCHANGED <<dir, dirs, playerVars, exportVars>>

DirNext ==
    \E t \in Clients :
        \/ Begin(t)
        \/ StatDir(t)
        \/ MkdirAllStat(t)
        \/ Mkdir(t)
        \/ Lstat(t)
        \/ CreateFile(t)

DirSpec == DirInit /\ [][DirNext]_vars

-----------------------------------------------------------------------------
(* Properties of the Directory *)

RECURSIVE leaves(_, _)
\* Walking the path from the root, level directories below it, leads above
\* the root at some segment.
leaves(level, path) ==
    IF path = <<>> THEN FALSE
    ELSE IF Head(path) = ".." THEN level = 0 \/ leaves(level - 1, Tail(path))
    ELSE leaves(level + 1, Tail(path))

\* The path resolves above the root.
Escapes(fpath) == leaves(0, fpath)

Called(t) == client[t].pc # "idle"
Done(t) == client[t].pc = "done"

\* C11: a Create or WriteFile whose path resolves above the root has failed
\* with ErrIllegalDir as soon as it is under way and has changed nothing in the
\* file system: it made no directory and created, truncated or wrote no file.
C11_EscapeRejectedUntouched ==
    \A t \in Clients :
        (Called(t) /\ Escapes(client[t].fpath)) =>
            /\ Done(t)
            /\ client[t].err = ErrIllegalDir
            /\ client[t].muts = 0
            /\ client[t].made = {}
            /\ client[t].node \notin DOMAIN files

\* C11 witness: a WriteFile to "../a" was rejected while the other client's
\* call made a directory and its file.
C11_Witness ==
    /\ Done(1)
    /\ Done(2)
    /\ client[1].op = "WriteFile"
    /\ Escapes(client[1].fpath)
    /\ client[1].fpath = <<"..", "a">>
    /\ client[1].err = ErrIllegalDir
    /\ client[2].err = ErrNone
    /\ client[2].muts = 2

\* One path is the other or lies under it.
Within(path, other) ==
    Len(other) <= Len(path) /\ SubSeq(path, 1, Len(other)) = other

\* The directories between the working directory and the node.
Ancestors(node) == {SubSeq(node, 1, n) : n \in 1..(Len(node) - 1)}

\* Two finished calls on file paths under the root of which none is the other,
\* lies under the other or names a directory, and whose parents overlap.
Concurrent ==
    /\ Done(1)
    /\ Done(2)
    /\ \A t \in Clients :
          /\ ~Escapes(client[t].fpath)
          /\ client[t].err # ErrIllegalDir
          /\ client[t].node \notin dirs
    /\ ~Within(client[1].node, client[2].node)
    /\ ~Within(client[2].node, client[1].node)
    /\ Ancestors(client[1].node) \cap Ancestors(client[2].node) # {}

C18_IllegalIffParentSegment ==
    \A t \in Clients :
        Done(t) =>
            (client[t].err = ErrIllegalDir
                <=> Rel(dir, client[t].node).rel[1] = "..")

====
